---- MODULE Spec2Model ----
(***************************************************************************)
(* Price Bandit (backend/scripts/Price_Bandit.py): synthesis of product    *)
(* variants from price bands, reconciliation against the platform and the *)
(* batch driver.                                                           *)
(*                                                                         *)
(* Strings are sequences of one-character strings, so that formatting,     *)
(* splitting, stripping and comparison are computed and not assumed.       *)
(* "Trade", "End Customer" and None are one-token sequences: no label,     *)
(* colour or SKU built from characters can equal them.                     *)
(***************************************************************************)
EXTENDS Integers, Sequences, FiniteSets, TLC

(***************************************************************************)
(* Bounds of the model.                                                    *)
(***************************************************************************)
MaxBands == 2
MaxPrice == 2010
MaxEnrichBands == 2
MaxConfirmed == 2
MaxParseItems == 2
BatchSize == 2
MaxEndcBands == 1
MaxPipeBands == 1
NumProducts == 2
Max429 == 1
MaxExisting == 3
MaxStore == 2
\* variants(first: 250) of the getProductVariants query, scaled down
FirstPage == 2

(***************************************************************************)
(* Python values.                                                          *)
(***************************************************************************)
None == <<"None">>
TRADE == <<"Trade">>
END_CUSTOMER == <<"End Customer">>
CustomerTypes == {TRADE, END_CUSTOMER}

DigitChars == <<"0", "1", "2", "3", "4", "5", "6", "7", "8", "9">>

IsDigit(c) == \E i \in 1..10 : DigitChars[i] = c

DigitVal(c) == (CHOOSE i \in 1..10 : DigitChars[i] = c) - 1

\* code point order of the characters that occur in labels and prices
Ord(c) ==
    IF c = "-" THEN 45
    ELSE IF c = "." THEN 46
    ELSE IF IsDigit(c) THEN 48 + DigitVal(c)
    ELSE 100

RECURSIVE NatStr(_)
NatStr(n) ==
    IF n < 10 THEN <<DigitChars[n + 1]>>
    ELSE NatStr(n \div 10) \o <<DigitChars[(n % 10) + 1]>>

\* str(n) of a Python int
IntStr(n) == IF n < 0 THEN <<"-">> \o NatStr(0 - n) ELSE NatStr(n)

\* s < t for Python strings
RECURSIVE StrLess(_, _)
StrLess(s, t) ==
    IF t = <<>> THEN FALSE
    ELSE IF s = <<>> THEN TRUE
    ELSE IF Head(s) = Head(t) THEN StrLess(Tail(s), Tail(t))
    ELSE Ord(Head(s)) < Ord(Head(t))

\* s.split(sep)[0]
RECURSIVE BeforeFirst(_, _)
BeforeFirst(s, sep) ==
    IF s = <<>> \/ Head(s) = sep THEN <<>>
    ELSE <<Head(s)>> \o BeforeFirst(Tail(s), sep)

\* the text after the first sep (s holds one)
RECURSIVE AfterFirst(_, _)
AfterFirst(s, sep) ==
    IF s = <<>> THEN <<>>
    ELSE IF Head(s) = sep THEN Tail(s)
    ELSE AfterFirst(Tail(s), sep)

Contains(s, c) == \E i \in 1..Len(s) : s[i] = c

\* s.split(sep): the list of fields
RECURSIVE Split(_, _)
Split(s, sep) ==
    IF Contains(s, sep)
    THEN <<BeforeFirst(s, sep)>> \o Split(AfterFirst(s, sep), sep)
    ELSE <<s>>

RECURSIVE LStrip(_)
LStrip(s) == IF s # <<>> /\ Head(s) = " " THEN LStrip(Tail(s)) ELSE s

RECURSIVE RStrip(_)
RStrip(s) ==
    IF s # <<>> /\ s[Len(s)] = " " THEN RStrip(SubSeq(s, 1, Len(s) - 1)) ELSE s

\* s.strip()
Strip(s) == LStrip(RStrip(s))

\* int(s) succeeds
IntOk(s) == s # <<>> /\ \A i \in 1..Len(s) : IsDigit(s[i])

RECURSIVE IntVal(_)
IntVal(s) ==
    IF s = <<>> THEN 0 ELSE 10 * IntVal(SubSeq(s, 1, Len(s) - 1)) + DigitVal(s[Len(s)])

Range(s) == {s[i] : i \in 1..Len(s)}

SeqsUpTo(S, n) == UNION {[1..k -> S] : k \in 0..n}

Perms(S) == {p \in [1..Cardinality(S) -> S] : \A i, j \in 1..Cardinality(S) : p[i] = p[j] => i = j}

(***************************************************************************)
(* Bands, labels and prices.  A price is held in thousandths.              *)
(***************************************************************************)
Band(lo, hi, p) == [min |-> lo, max |-> hi, price |-> p]

\* "2-5" and "2-9" have the same sort key; "11-20" sorts after them by key and before
\* them as text; the key of "-1-5" is no integer
BandUniverse == {Band(2, 5, 5000), Band(2, 9, 2005), Band(11, 20, 2004), Band(-1, 5, 1000)}

EndcUniverse == {Band(2, 5, 6500), Band(11, 20, 2995)}

band_label(band) == IntStr(band.min) \o <<"-">> \o IntStr(band.max)

\* a price given as a string that float() rejects ("abc"): parse_bands leaves it in
\* place (lines 439-443).  Prices are numbers in the model; this one stands for that
\* string
TextPrice == 0 - 1

\* decimal.InvalidOperation, an ArithmeticError, raised where a value was due
InvalidOperation == <<"InvalidOperation">>

format_price_Truncating(price) ==
    LET cents == price \div 10
        frac == cents % 100
    IN  NatStr(cents \div 100) \o <<".">> \o <<DigitChars[(frac \div 10) + 1], DigitChars[(frac % 10) + 1]>>

\* Decimal(str(price)).quantize(Decimal('0.01'), ROUND_HALF_UP) as text; price is the
\* decimal value of the number or of the numeric string, in thousandths.  Decimal
\* raises InvalidOperation for a string that is no number, and the except clause
\* names ValueError and TypeError only
format_price(price) ==
    LET cents == (price + 5) \div 10
        frac == cents % 100
    IN  IF price = TextPrice
        THEN InvalidOperation
        ELSE NatStr(cents \div 100) \o <<".">> \o
             <<DigitChars[(frac \div 10) + 1], DigitChars[(frac % 10) + 1]>>

\* the call that was to give the records raised in format_price
Raised(records) == \E i \in 1..Len(records) : records[i].price = InvalidOperation

(***************************************************************************)
(* Variant Synthesizer.                                                    *)
(***************************************************************************)
\* next((x for x in seq if Test(x)), None): the index of the first element of seq
\* that satisfies Test, 0 for None
FirstWith(seq, Test(_)) ==
    IF \E i \in 1..Len(seq) : Test(seq[i])
    THEN CHOOSE i \in 1..Len(seq) : Test(seq[i]) /\ \A j \in 1..(i - 1) : ~Test(seq[j])
    ELSE 0

\* set(band_label(b) for b in all_bands)
LabelSet(trade_bands, endc_bands) == {band_label(b) : b \in Range(trade_bands \o endc_bands)}

LabelKey(x) == IntVal(BeforeFirst(x, "-"))

\* sorted(seq, key=LabelKey): stable, equal keys keep the order of seq
RECURSIVE SortedByKey(_)
SortedByKey(seq) ==
    IF seq = <<>> THEN <<>>
    ELSE LET x == seq[Len(seq)]
             rest == SortedByKey(SubSeq(seq, 1, Len(seq) - 1))
             k == Cardinality({i \in 1..Len(rest) : LabelKey(rest[i]) <= LabelKey(x)})
         IN  SubSeq(rest, 1, k) \o <<x>> \o SubSeq(rest, k + 1, Len(rest))

\* sorted(labels) of a set of strings
SortedStrings(labels) ==
    CHOOSE p \in Perms(labels) : \A i, j \in 1..Len(p) : i < j => StrLess(p[i], p[j])

collect_unique_band_labels_Unsorted(trade_bands, endc_bands, iter) == iter

\* iter is the order in which the set of labels is iterated: a str set iterates in
\* the order of the hashes, which are salted per interpreter process
collect_unique_band_labels(trade_bands, endc_bands, iter) ==
    LET labels == LabelSet(trade_bands, endc_bands)
    IN  IF \A x \in labels : IntOk(BeforeFirst(x, "-"))
        THEN SortedByKey(iter)
        ELSE SortedStrings(labels)

Truthy(s) == s # None /\ s # <<>>

build_variant_for_band(label, band, customer_type, sku, unit_weight, colour) ==
    LET base == [price |-> format_price(band.price),
                 inventory_management |-> None,
                 inventory_policy |-> "continue",
                 requires_shipping |-> TRUE,
                 weight |-> unit_weight,
                 weight_unit |-> "g",
                 sku |-> sku,
                 taxable |-> TRUE]
    IN  IF Truthy(colour)
        THEN base @@ [option1 |-> colour, option2 |-> label, option3 |-> customer_type]
        ELSE base @@ [option1 |-> label, option2 |-> customer_type, option3 |-> None]

\* the variants of one pass over the labels, for one colour (None: no colour)
VariantsOfLabels(labels, trade_bands, endc_bands, sku, unit_weight, colour) ==
    LET OfLabel(label) ==
            LET HasLabel(b) == band_label(b) = label
                t_band == FirstWith(trade_bands, HasLabel)
                e_band == FirstWith(endc_bands, HasLabel)
            IN  (IF t_band # 0
                 THEN <<build_variant_for_band(label, trade_bands[t_band], TRADE,
                                               sku, unit_weight, colour)>>
                 ELSE <<>>)
                \o
                (IF e_band # 0
                 THEN <<build_variant_for_band(label, endc_bands[e_band], END_CUSTOMER,
                                               sku, unit_weight, colour)>>
                 ELSE <<>>)
        acc[i \in 0..Len(labels)] == IF i = 0 THEN <<>> ELSE acc[i - 1] \o OfLabel(labels[i])
    IN  acc[Len(labels)]

build_variants_BaseSku(trade_bands, endc_bands, sku, unit_weight, colours, colour_codes, iter) ==
    LET labels == collect_unique_band_labels(trade_bands, endc_bands, iter)
        OfColour(colour) ==
            VariantsOfLabels(labels, trade_bands, endc_bands, sku, unit_weight, colour)
        acc[i \in 0..Len(colours)] == IF i = 0 THEN <<>> ELSE acc[i - 1] \o OfColour(colours[i])
    IN  IF Len(colours) > 0
        THEN acc[Len(colours)]
        ELSE VariantsOfLabels(labels, trade_bands, endc_bands, sku, unit_weight, None)

\* colour_codes maps each parsed colour to its code; iter as in collect_unique_band_labels
build_variants(trade_bands, endc_bands, sku, unit_weight, colours, colour_codes, iter) ==
    LET labels == collect_unique_band_labels(trade_bands, endc_bands, iter)
        OfColour(colour) ==
            LET colour_code == IF colour \in DOMAIN colour_codes THEN colour_codes[colour] ELSE <<>>
                variant_sku == IF colour_code # <<>> THEN sku \o <<"/">> \o colour_code ELSE sku
            IN  VariantsOfLabels(labels, trade_bands, endc_bands, variant_sku, unit_weight, colour)
        acc[i \in 0..Len(colours)] == IF i = 0 THEN <<>> ELSE acc[i - 1] \o OfColour(colours[i])
    IN  IF Len(colours) > 0
        THEN acc[Len(colours)]
        ELSE VariantsOfLabels(labels, trade_bands, endc_bands, sku, unit_weight, None)

(***************************************************************************)
(* Colour parsing of process_product.                                      *)
(***************************************************************************)
\* one entry of colours_str.split(","): its colour and its code
ColourEntry(colour_entry) ==
    LET e == Strip(colour_entry)
    IN  IF Contains(e, ":")
        THEN [colour |-> Strip(BeforeFirst(e, ":")), code |-> Strip(AfterFirst(e, ":"))]
        ELSE [colour |-> e, code |-> <<>>]

\* value is the product_colours metafield value, None when the metafield is absent
parse_colours(value) ==
    LET colours_str == IF value = None THEN <<>> ELSE Strip(value)
        entries == IF colours_str = <<>> THEN <<>> ELSE Split(colours_str, ",")
        colours == [i \in 1..Len(entries) |-> ColourEntry(entries[i]).colour]
        LastOf(c) == CHOOSE i \in 1..Len(entries) :
                        /\ colours[i] = c
                        /\ \A j \in (i + 1)..Len(entries) : colours[j] # c
    IN  [colours |-> colours,
         colour_codes |-> [c \in Range(colours) |-> ColourEntry(entries[LastOf(c)]).code]]

(***************************************************************************)
(* Match back.                                                             *)
(***************************************************************************)
\* the match ignores the colour (lines 533-539), which the print of line 539 logs: no
\* colour was passed, no variant has option1 = label and option2 = customer type, and
\* one has option2 = label and option3 = customer type
UsesFallback(band, updated_variants, customer_type, colour) ==
    /\ ~Truthy(colour)
    /\ \A i \in 1..Len(updated_variants) :
          ~(updated_variants[i].option1 = band_label(band)
            /\ updated_variants[i].option2 = customer_type)
    /\ \E i \in 1..Len(updated_variants) :
          /\ updated_variants[i].option2 = band_label(band)
          /\ updated_variants[i].option3 = customer_type

MatchOf_LastColour(band, updated_variants, customer_type, colour) ==
    LET Fits(i) == \/ /\ updated_variants[i].option1 = band_label(band)
                      /\ updated_variants[i].option2 = customer_type
                   \/ /\ updated_variants[i].option2 = band_label(band)
                      /\ updated_variants[i].option3 = customer_type
    IN  IF \E i \in 1..Len(updated_variants) : Fits(i)
        THEN CHOOSE i \in 1..Len(updated_variants) :
                 Fits(i) /\ \A j \in (i + 1)..Len(updated_variants) : ~Fits(j)
        ELSE 0

MatchOf_FirstVariant(band, updated_variants, customer_type, colour) ==
    IF Len(updated_variants) > 0 THEN 1 ELSE 0

\* the index in updated_variants of the variant enrich_bands_with_variant_ids
\* matches to a band, 0 for None
MatchOf(band, updated_variants, customer_type, colour) ==
    LET label == band_label(band)
        Exact3(v) == v.option1 = colour /\ v.option2 = label /\ v.option3 = customer_type
        Exact2(v) == v.option1 = label /\ v.option2 = customer_type
        AnyColour(v) == v.option2 = label /\ v.option3 = customer_type
    IN  IF Truthy(colour)
        THEN FirstWith(updated_variants, Exact3)
        ELSE IF FirstWith(updated_variants, Exact2) # 0
             THEN FirstWith(updated_variants, Exact2)
             ELSE FirstWith(updated_variants, AnyColour)

enrich_bands_with_variant_ids(bands, updated_variants, customer_type, colour) ==
    LET OfBand(band) ==
            LET match == MatchOf(band, updated_variants, customer_type, colour)
            IN  IF match # 0 /\ updated_variants[match].id # 0
                THEN <<[min |-> band.min, max |-> band.max,
                        price |-> format_price(band.price),
                        id |-> updated_variants[match].id]>>
                ELSE <<>>
        acc[i \in 0..Len(bands)] == IF i = 0 THEN <<>> ELSE acc[i - 1] \o OfBand(bands[i])
    IN  acc[Len(bands)]

(***************************************************************************)
(* Image binding of attach_main_image_to_variants (lines 719-811).  A call *)
(* is the PUT of one image with the variant ids it lists; ok: the platform *)
(* answered 200.                                                           *)
(***************************************************************************)
ImageCall(image, variant_ids, ok) == [image |-> image, variant_ids |-> variant_ids, ok |-> ok]

\* colour_to_variants[colour]: the ids of the live variants whose option1 is the colour
ColourToVariants(live, colour) ==
    LET OfColour(v) == v.option1 = colour
        vs == SelectSeq(live, OfColour)
    IN  [i \in 1..Len(vs) |-> vs[i].id]

\* the calls of the loop over the colours; resolved[colour] is the image found for the
\* colour by index or by name, "none" when there is none
ColourCalls(colours_, live, resolved, ok) ==
    LET OfColour(c) ==
            IF ColourToVariants(live, c) = <<>> \/ resolved[c] = "none"
            THEN <<>>
            ELSE <<ImageCall(resolved[c], ColourToVariants(live, c), ok[c])>>
        acc[i \in 0..Len(colours_)] == IF i = 0 THEN <<>> ELSE acc[i - 1] \o OfColour(colours_[i])
    IN  acc[Len(colours_)]

\* all calls of the image binding, in the order they are sent
ImageCalls(colours_, live, resolved, ok, main_ok) ==
    LET all_variant_ids == [i \in 1..Len(live) |-> live[i].id]
        colour_calls == ColourCalls(colours_, live, resolved, ok)
        assigned_variants ==
            UNION {Range(colour_calls[n].variant_ids) :
                       n \in {k \in 1..Len(colour_calls) : colour_calls[k].ok}}
        Unassigned(v_id) == v_id \notin assigned_variants
        unassigned_variants == SelectSeq(all_variant_ids, Unassigned)
    IN  IF Len(colours_) > 0
        THEN colour_calls \o
             (IF unassigned_variants # <<>>
              THEN <<ImageCall("main", unassigned_variants, main_ok)>>
              ELSE <<>>)
        ELSE <<ImageCall("main", all_variant_ids, main_ok)>>

\* the variants of each image after the platform has taken the calls: an accepted PUT
\* of an image makes the listed variants the variants of that image, and a variant
\* has one image
RECURSIVE ImagesAfter(_, _)
ImagesAfter(images, calls) ==
    IF calls = <<>> THEN images
    ELSE LET call == Head(calls)
             listed == Range(call.variant_ids)
             next == IF call.ok
                     THEN [img \in DOMAIN images |->
                              IF img = call.image THEN listed ELSE images[img] \ listed]
                     ELSE images
         IN  ImagesAfter(next, Tail(calls))

(***************************************************************************)
(* Band Parser.  A metafield value is the text of a JSON document: json is *)
(* "invalid" when it does not decode, "object" when it decodes to a        *)
(* non-list, "list" when it decodes to the list items.                     *)
(***************************************************************************)
\* the key is not in the metafield map
Absent == [json |-> "absent", items |-> <<>>]
JsonInvalid == [json |-> "invalid", items |-> <<>>]
JsonObject == [json |-> "object", items |-> <<>>]
JsonList(items) == [json |-> "list", items |-> items]

\* a decoded element that is no mapping carries its JSON type in the field json; the
\* other fields of an element are what `in` finds in it
validate_band_structure(band) ==
    "json" \notin DOMAIN band /\ {"min", "max", "price"} \subseteq DOMAIN band

\* the valid elements only
parse_bands_PerElement(value) ==
    IF value.json # "list" THEN <<>>
    ELSE SelectSeq(value.items, validate_band_structure)

\* a price given as a numeric string is replaced by the float of the same decimal
\* value (lines 437-443): prices are held by value
parse_bands(value) ==
    IF value.json # "list" THEN <<>>
    ELSE IF \A i \in 1..Len(value.items) : validate_band_structure(value.items[i])
         THEN value.items
         ELSE <<>>

(***************************************************************************)
(* Inputs.                                                                 *)
(***************************************************************************)
\* product_colours values
ColourValues ==
    {<<>>,
     <<"R", ":", "r", ",", "B">>,
     <<"R", ",", "R">>,
     <<"R", ",">>,
     <<"R", ":", "r", ",", "R">>,
     <<" ", "R", " ", ":", " ", "r">>}

PipeColourValues == {<<"R", ":", "r", ",", "B">>, <<"R", ",">>}

PipeBandUniverse == {Band(1, 10, 5000), Band(11, 20, 2005), Band(1, 10, TextPrice)}

\* the values of pricejsontr
PipeBandValues ==
    {JsonInvalid} \cup {JsonList(items) : items \in SeqsUpTo(PipeBandUniverse, MaxPipeBands)}

\* pricejsoner: one band, with the label of a Trade band
PipeEndcUniverse == {Band(1, 10, 6500)}

PipeEndcValues ==
    {JsonInvalid} \cup {JsonList(items) : items \in SeqsUpTo(PipeEndcUniverse, MaxPipeBands)}

SkuValue == <<"S", "K">>

WeightValue == <<"2", "5", "0">>

\* what get_metafields_by_keys can return; pricejsontid / pricejsoneid: the key is
\* present with an id
MetafieldMaps ==
    [pricejsontr : PipeBandValues \cup {Absent},
     pricejsoner : PipeEndcValues \cup {Absent},
     product_colours : PipeColourValues \cup {None},
     sku : {SkuValue},
     unit_weight : {WeightValue},
     pricejsontid : BOOLEAN,
     pricejsoneid : BOOLEAN]

get_unit_weight_grams(mf) ==
    IF mf.unit_weight # None /\ IntOk(mf.unit_weight) THEN IntVal(mf.unit_weight) ELSE 0

get_sku(mf) == IF Truthy(mf.sku) THEN mf.sku ELSE <<>>

(***************************************************************************)
(* State.                                                                  *)
(***************************************************************************)
VARIABLES
    \* two interpreter processes that call build_variants on the same arguments
    b_trade, b_endc, b_colours, b_out, b_done,
    \* main
    mainPc, idx, successful, failed,
    \* process_product of the product at idx
    pc, metafields, colours, colour_codes, trade_raw, endc_raw, variants,
    variants_deleted, updated_variants, enriched_trade, enriched_endc, attempt, fresh,
    \* the platform as the run sees it, and what the run did
    lastCall, lastResp, issued, n429, payload, delete_error, stored, result, runs,
    \* one call of a function on its own: its name, its arguments, what it returned
    fn, args, out

bvars == <<b_trade, b_endc, b_colours, b_out, b_done>>
mvars == <<mainPc, idx, successful, failed>>
locals == <<metafields, colours, colour_codes, trade_raw, endc_raw, variants,
            variants_deleted, updated_variants, enriched_trade, enriched_endc,
            attempt, fresh>>
hvars == <<lastCall, lastResp, issued, n429, payload, delete_error, stored, result, runs>>
fvars == <<fn, args, out>>
vars == <<bvars, mvars, pc, locals, hvars, fvars>>

NoMetafields ==
    [pricejsontr |-> Absent, pricejsoner |-> Absent, product_colours |-> None,
     sku |-> None, unit_weight |-> None, pricejsontid |-> FALSE, pricejsoneid |-> FALSE]

NoPayload == [options |-> <<>>, variants |-> <<>>]

\* what the run has written to pricejsontid / pricejsoneid
NotWritten == [written |-> FALSE, value |-> <<>>]
NoStored == [pricejsontid |-> NotWritten, pricejsoneid |-> NotWritten]

IdleProduct ==
    /\ pc = "idle"
    /\ metafields = NoMetafields
    /\ colours = <<>>
    /\ colour_codes = <<>>
    /\ trade_raw = <<>>
    /\ endc_raw = <<>>
    /\ variants = <<>>
    /\ variants_deleted = FALSE
    /\ updated_variants = <<>>
    /\ enriched_trade = <<>>
    /\ enriched_endc = <<>>
    /\ attempt = 0
    /\ fresh = "none"
    /\ lastCall = "none"
    /\ lastResp = "none"
    /\ issued = {}
    /\ n429 = 0
    /\ payload = NoPayload
    /\ delete_error = "none"
    /\ stored = NoStored
    /\ result = "none"

IdleMain ==
    /\ mainPc = "get_all_products"
    /\ idx = 0
    /\ successful = 0
    /\ failed = 0
    /\ runs = [aborted |-> 0, errored |-> 0, completed |-> 0]

IdleBuild ==
    /\ b_trade = <<>>
    /\ b_endc = <<>>
    /\ b_colours = None
    /\ b_out = [r \in {1, 2} |-> <<>>]
    /\ b_done = {}

NotCalled == [done |-> FALSE]

Returned(value) == [done |-> TRUE, value |-> value]

IdleCall ==
    /\ fn = "none"
    /\ args = <<>>
    /\ out = NotCalled

Init == IdleBuild /\ IdleMain /\ IdleProduct /\ IdleCall

(***************************************************************************)
(* Platform calls.  A call is answered by the platform with one of the     *)
(* responses of its action; "exception" is a network error raised by       *)
(* requests, "error" a network error or an HTTP error status raised by     *)
(* safe_request.                                                           *)
(***************************************************************************)
\* a request of the given kind is sent and answered with resp; the platform answers
\* 429 at most Max429 times in a row
Call(kind, resp) ==
    /\ resp = "429" => n429 < Max429
    /\ lastCall' = kind
    /\ lastResp' = resp
    /\ issued' = issued \cup {kind}
    /\ n429' = IF resp = "429" THEN n429 + 1 ELSE 0

SafeRequestOutcome_ErrorsReturned(resp) == IF resp = "429" THEN "retry" ELSE "return"

\* safe_request: the responses after which it loops, raises, returns
SafeRequestOutcome(resp) ==
    IF resp = "429" THEN "retry"
    ELSE IF resp = "error" THEN "raise"
    ELSE "return"

\* the options of the PUT of update_product_variants
ProductOptions(colours_) ==
    IF Len(colours_) > 0
    THEN <<"Colour", "Quantity", "Customer Type">>
    ELSE <<"Quantity", "Customer Type">>

\* the variants of the product as the platform returns them after a successful PUT:
\* the submitted variants, each with the id the platform gave it
ConfirmedVariants(variants_) ==
    [i \in 1..Len(variants_) |-> variants_[i] @@ [id |-> i]]

\* what update_product_variants returns when its PUT is answered with resp
update_product_variants(variants_, resp) ==
    IF resp = "200" THEN ConfirmedVariants(variants_) ELSE <<>>

AbortsOnUpdateFailure_Never(updated_variants_) == FALSE

\* process_product: "if not updated_variants: return False"
AbortsOnUpdateFailure(updated_variants_) == updated_variants_ = <<>>

\* process_product returns res
Return(res) ==
    /\ pc' = "return"
    /\ result' = res

(***************************************************************************)
(* main.                                                                   *)
(***************************************************************************)
GetAllProducts ==
    /\ mainPc = "get_all_products"
    /\ \E resp \in {"200", "200_empty", "429", "error"} :
        /\ Call("GET products", resp)
        /\ IF SafeRequestOutcome(resp) = "retry"
           THEN UNCHANGED <<mainPc, idx, pc>>
           ELSE IF resp = "200"
           THEN /\ mainPc' = "loop"
                /\ idx' = 1
                /\ pc' = "process_product"
           ELSE /\ mainPc' = "fatal"
                /\ UNCHANGED <<idx, pc>>
    /\ UNCHANGED <<bvars, fvars, successful, failed, locals, payload, delete_error, stored,
                   result, runs>>

AfterProduct_StopsOnFailure(res) ==
    IF res \in {"raised", "False"}
    THEN [successful |-> 0, failed |-> 1, stop |-> TRUE]
    ELSE [successful |-> 1, failed |-> 0, stop |-> FALSE]

\* the body of the loop of main around process_product(product): what it adds to the
\* counts and whether it leaves the loop.  res is what the call returned, "raised"
\* when an exception left it
AfterProduct(res) ==
    IF res = "raised"
    THEN [successful |-> 0, failed |-> 1, stop |-> FALSE]
    ELSE [successful |-> 1, failed |-> 0, stop |-> FALSE]

\* how the run of the product at idx ended: in an error caught by process_product,
\* aborted on a variant update failure, or completed (skipped products included)
RunEnd ==
    IF result = "False" /\ lastResp = "error" THEN "errored"
    ELSE IF result = "False" THEN "aborted"
    ELSE "completed"

\* what main returns, the exit status of the script: 0 after the summary, 1 when it
\* ended before the loop
main_returncode == IF mainPc = "done" THEN 0 ELSE 1

\* app.py: the script is run with the product's title as filter; True when its exit
\* status is 0
run_price_bandit_for_product == main_returncode = 0

\* app.py: the payload of POST /api/price-bandit/run
api_run_price_bandit ==
    IF run_price_bandit_for_product
    THEN [success |-> TRUE, error |-> "none"]
    ELSE [success |-> FALSE, error |-> "Price Bandit run failed"]

\* the call of process_product has returned
MainNext ==
    /\ mainPc = "loop"
    /\ pc = "return"
    /\ successful' = successful + AfterProduct(result).successful
    /\ failed' = failed + AfterProduct(result).failed
    /\ runs' = [runs EXCEPT ![RunEnd] = @ + 1]
    /\ IF idx < NumProducts /\ ~AfterProduct(result).stop
       THEN /\ idx' = idx + 1
            /\ pc' = "process_product"
            /\ metafields' = NoMetafields
            /\ colours' = <<>>
            /\ colour_codes' = <<>>
            /\ trade_raw' = <<>>
            /\ endc_raw' = <<>>
            /\ variants' = <<>>
            /\ variants_deleted' = FALSE
            /\ updated_variants' = <<>>
            /\ enriched_trade' = <<>>
            /\ enriched_endc' = <<>>
            /\ attempt' = 0
            /\ fresh' = "none"
            /\ lastCall' = "none"
            /\ lastResp' = "none"
            /\ issued' = {}
            /\ n429' = 0
            /\ payload' = NoPayload
            /\ delete_error' = "none"
            /\ stored' = NoStored
            /\ result' = "none"
            /\ UNCHANGED mainPc
       ELSE /\ mainPc' = "done"
            /\ pc' = "idle"
            /\ UNCHANGED <<idx, locals, lastCall, lastResp, issued, n429, payload,
                           delete_error, stored, result>>
    /\ UNCHANGED <<bvars, fvars>>

(***************************************************************************)
(* process_product.                                                        *)
(***************************************************************************)
\* the title is read here: a product with "origination" in its name is skipped
ProcessStart ==
    /\ pc = "process_product"
    /\ \E origination \in BOOLEAN :
        IF origination
        THEN Return("None")
        ELSE /\ pc' = "get_metafields"
             /\ UNCHANGED result
    /\ UNCHANGED <<bvars, fvars, mvars, locals, lastCall, lastResp, issued, n429, payload,
                   delete_error, stored, runs>>

SkipsWithoutBands_Never(trade_raw_, endc_raw_) == FALSE

\* process_product: "if not trade_raw and not endc_raw: ... return"
SkipsWithoutBands(trade_raw_, endc_raw_) == trade_raw_ = <<>> /\ endc_raw_ = <<>>

\* from the metafields to the candidate variants (lines 882-930)
Prepare(mf) ==
    LET parsed == parse_colours(mf.product_colours)
        tr == parse_bands(mf.pricejsontr)
        er == parse_bands(mf.pricejsoner)
    IN  /\ colours' = parsed.colours
        /\ colour_codes' = parsed.colour_codes
        /\ IF mf.pricejsontr = Absent \/ mf.pricejsoner = Absent
           THEN /\ Return("None")
                /\ UNCHANGED <<trade_raw, endc_raw, variants>>
           ELSE /\ trade_raw' = tr
                /\ endc_raw' = er
                /\ IF SkipsWithoutBands(tr, er)
                   THEN /\ Return("None")
                        /\ UNCHANGED variants
                   ELSE \E iter \in Perms(LabelSet(tr, er)) :
                            LET built == build_variants(tr, er, get_sku(mf),
                                                        get_unit_weight_grams(mf),
                                                        parsed.colours,
                                                        parsed.colour_codes, iter)
                            IN  IF Raised(built)
                                THEN /\ Return("False")
                                     /\ UNCHANGED variants
                                ELSE /\ variants' = built
                                     /\ pc' = "fetch_variants"
                                     /\ UNCHANGED result

GetMetafields ==
    /\ pc = "get_metafields"
    /\ \E resp \in {"200", "429", "error"} :
        /\ Call("GET metafields", resp)
        /\ IF SafeRequestOutcome(resp) = "retry"
           THEN UNCHANGED <<pc, result, metafields, colours, colour_codes, trade_raw,
                            endc_raw, variants>>
           ELSE IF SafeRequestOutcome(resp) = "raise"
           THEN /\ Return("False")
                /\ UNCHANGED <<metafields, colours, colour_codes, trade_raw, endc_raw,
                               variants>>
           ELSE \E mf \in MetafieldMaps :
                /\ metafields' = mf
                /\ IF mf.product_colours = None
                   THEN /\ pc' = "get_colours_direct"
                        /\ UNCHANGED <<result, colours, colour_codes, trade_raw,
                                       endc_raw, variants>>
                   ELSE Prepare(mf)
    /\ UNCHANGED <<bvars, fvars, mvars, variants_deleted, updated_variants, enriched_trade,
                   enriched_endc, attempt, fresh, payload, delete_error, stored, runs>>

\* the direct look for product_colours (lines 863-880): its answer is only printed
GetColoursDirect ==
    /\ pc = "get_colours_direct"
    /\ \E resp \in {"200", "429", "500", "exception"} :
        Call("GET metafields direct", resp)
    /\ Prepare(metafields)
    /\ UNCHANGED <<bvars, fvars, mvars, metafields, variants_deleted, updated_variants,
                   enriched_trade, enriched_endc, attempt, fresh, payload, delete_error,
                   stored, runs>>

\* the GraphQL query for the ids of the existing variants (lines 945-976, 1023-1031)
FetchVariants ==
    /\ pc = "fetch_variants"
    /\ \E resp \in {"200_ids", "200_none", "200_errors", "429", "500", "exception"} :
        /\ Call("POST getProductVariants", resp)
        /\ pc' = IF resp = "200_ids" THEN "delete_variants" ELSE "update_variants"
    /\ UNCHANGED <<bvars, fvars, mvars, locals, payload, delete_error, stored, result, runs>>

AfterDelete_AbortsOnUserErrors(resp) ==
    IF resp \in {"last_variant", "user_errors"} THEN "return" ELSE "update_variants"

\* where process_product goes after the delete attempt was answered with resp: no
\* answer aborts the run
AfterDelete(resp) == "update_variants"

\* productVariantsBulkDelete (lines 978-1031)
DeleteVariants ==
    /\ pc = "delete_variants"
    /\ \E resp \in {"200", "200_errors", "last_variant", "user_errors", "429", "500",
                    "exception"} :
        /\ Call("POST productVariantsBulkDelete", resp)
        /\ variants_deleted' = (resp = "200")
        /\ delete_error' = IF resp = "last_variant" THEN resp ELSE delete_error
        /\ IF AfterDelete(resp) = "update_variants"
           THEN /\ pc' = "update_variants"
                /\ UNCHANGED result
           ELSE Return("False")
    /\ UNCHANGED <<bvars, fvars, mvars, metafields, colours, colour_codes, trade_raw, endc_raw,
                   variants, updated_variants, enriched_trade, enriched_endc, attempt,
                   fresh, payload, stored, runs>>

\* update_product_variants and the match back (lines 1038-1046)
UpdateVariants ==
    /\ pc = "update_variants"
    /\ \E resp \in {"200", "422", "429", "500", "exception"} :
        /\ Call("PUT product", resp)
        /\ payload' = [options |-> ProductOptions(colours), variants |-> variants]
        /\ LET updated == update_product_variants(variants, resp)
               e_trade == enrich_bands_with_variant_ids(trade_raw, updated, TRADE, None)
               e_endc == enrich_bands_with_variant_ids(endc_raw, updated, END_CUSTOMER, None)
           IN  /\ updated_variants' = updated
               /\ IF AbortsOnUpdateFailure(updated)
                  THEN /\ Return("False")
                       /\ UNCHANGED <<enriched_trade, enriched_endc>>
                  ELSE IF Raised(e_trade)
                  THEN /\ Return("False")
                       /\ UNCHANGED <<enriched_trade, enriched_endc>>
                  ELSE IF Raised(e_endc)
                  THEN /\ Return("False")
                       /\ enriched_trade' = e_trade
                       /\ UNCHANGED enriched_endc
                  ELSE /\ enriched_trade' = e_trade
                       /\ enriched_endc' = e_endc
                       /\ pc' = "write_pricejsontid"
                       /\ UNCHANGED result
    /\ UNCHANGED <<bvars, fvars, mvars, metafields, colours, colour_codes, trade_raw, endc_raw,
                   variants, variants_deleted, attempt, fresh, delete_error, stored, runs>>

set_or_update_metafield_AlwaysCreate(present, key) == "POST metafield " \o key

\* the request set_or_update_metafield sends for key: an update when the key is in the
\* metafield map with an id (present), a create otherwise
set_or_update_metafield(present, key) ==
    IF present THEN "PUT metafield " \o key ELSE "POST metafield " \o key

\* the request of set_or_update_metafield for key
MetafieldRequest(key) == set_or_update_metafield(metafields[key], key)

\* the metafields of the product with one key, as the values they hold, after the
\* platform has accepted the request: an update replaces the value of the metafield
\* whose id it names, a create adds a metafield
MetafieldsAfter(held, request, key, value) ==
    IF request = "PUT metafield " \o key
    THEN [held EXCEPT ![1] = value]
    ELSE Append(held, value)

\* set_or_update_metafield(metafields, product_id, key, value, ...) at pc = at
SetOrUpdateMetafield(at, key, value, next) ==
    /\ pc = at
    /\ \E resp \in {"200", "429", "error"} :
        /\ Call(MetafieldRequest(key), resp)
        /\ IF SafeRequestOutcome(resp) = "retry"
           THEN UNCHANGED <<pc, result, stored>>
           ELSE IF SafeRequestOutcome(resp) = "raise"
           THEN /\ Return("False")
                /\ UNCHANGED stored
           ELSE /\ stored' = [stored EXCEPT ![key] = [written |-> TRUE, value |-> value]]
                /\ pc' = next
                /\ UNCHANGED result
    /\ UNCHANGED <<bvars, fvars, mvars, locals, payload, delete_error, runs>>

WriteTid == SetOrUpdateMetafield("write_pricejsontid", "pricejsontid", enriched_trade,
                                 "write_pricejsoneid")

WriteEid_ThenUpdateAgain ==
    SetOrUpdateMetafield("write_pricejsoneid", "pricejsoneid", enriched_endc,
                         "update_variants")

WriteEid == SetOrUpdateMetafield("write_pricejsoneid", "pricejsoneid", enriched_endc,
                                 "image_get")

\* attach_main_image_to_variants: the GET of the product (lines 618-627); what it
\* returns is not read by process_product
ImageGet ==
    /\ pc = "image_get"
    /\ \E resp \in {"200_image", "200_no_image", "429", "error"} :
        /\ Call("GET product", resp)
        /\ IF SafeRequestOutcome(resp) = "retry"
           THEN UNCHANGED <<pc, result, attempt>>
           ELSE IF resp = "200_image"
           THEN /\ pc' = "image_refetch"
                /\ attempt' = 1
                /\ UNCHANGED result
           ELSE /\ Return("True")
                /\ UNCHANGED attempt
    /\ UNCHANGED <<bvars, fvars, mvars, metafields, colours, colour_codes, trade_raw, endc_raw,
                   variants, variants_deleted, updated_variants, enriched_trade,
                   enriched_endc, fresh, payload, delete_error, stored, runs>>

\* fresh_product_data after an attempt of the re-fetch loop answered with resp:
\* "variants" when every page of variants was fetched, "partial" when a later page was
\* answered with an error and the pages before it are kept, "empty" when no variant
\* was fetched, "product_only" when the product was fetched and the request for its
\* variants raised, unchanged when the request for the product failed ("none": the
\* product as attach_main_image_to_variants first read it)
FreshAfter(resp, fresh_) ==
    CASE resp = "200_variants" -> "variants"
      [] resp = "200_partial" -> "partial"
      [] resp = "200_no_variants" -> "empty"
      [] resp = "200_then_exception" -> "product_only"
      [] OTHER -> fresh_

\* the attempt ends the loop: "if variant_count > 0: break"
AttemptAccepted(resp) == resp \in {"200_variants", "200_partial"}

\* one attempt of the re-fetch loop (lines 639-705) and, after the last one, the
\* check of lines 708-716; attempt and fresh_product_data end with the call
ImageRefetch ==
    /\ pc = "image_refetch"
    /\ \E resp \in {"200_variants", "200_partial", "200_no_variants", "200_then_exception",
                    "429", "500", "exception"} :
        /\ Call("GET product fresh", resp)
        /\ LET now == FreshAfter(resp, fresh)
           IN  IF AttemptAccepted(resp)
               THEN /\ pc' = "image_assign"
                    /\ fresh' = now
                    /\ UNCHANGED <<attempt, result>>
               ELSE IF attempt < 3
               THEN /\ attempt' = attempt + 1
                    /\ fresh' = now
                    /\ UNCHANGED <<pc, result>>
               ELSE IF now = "empty"
               THEN /\ Return("True")
                    /\ attempt' = 0
                    /\ fresh' = "none"
               ELSE /\ pc' = "image_assign"
                    /\ fresh' = now
                    /\ UNCHANGED <<attempt, result>>
    /\ UNCHANGED <<bvars, fvars, mvars, metafields, colours, colour_codes, trade_raw, endc_raw,
                   variants, variants_deleted, updated_variants, enriched_trade,
                   enriched_endc, payload, delete_error, stored, runs>>

\* the PUT of the image with its variant_ids (lines 788-819): its answer is not read
ImageAssign ==
    /\ pc = "image_assign"
    /\ \E resp \in {"200", "429", "500", "exception"} :
        Call("PUT image", resp)
    /\ Return("True")
    /\ attempt' = 0
    /\ fresh' = "none"
    /\ UNCHANGED <<bvars, fvars, mvars, metafields, colours, colour_codes, trade_raw, endc_raw,
                   variants, variants_deleted, updated_variants, enriched_trade,
                   enriched_endc, payload, delete_error, stored, runs>>

Next ==
    \/ GetAllProducts
    \/ MainNext
    \/ ProcessStart
    \/ GetMetafields
    \/ GetColoursDirect
    \/ FetchVariants
    \/ DeleteVariants
    \/ UpdateVariants
    \/ WriteTid
    \/ WriteEid
    \/ ImageGet
    \/ ImageRefetch
    \/ ImageAssign

Spec == Init /\ [][Next]_vars

(***************************************************************************)
(* build_variants on its own: all lists of up to MaxBands Trade bands and  *)
(* up to MaxEndcBands End Customer bands, all product_colours values,      *)
(* called once in each of two interpreter processes.                       *)
(***************************************************************************)
InitBuild ==
    /\ b_trade \in SeqsUpTo(BandUniverse, MaxBands)
    /\ b_endc \in SeqsUpTo(EndcUniverse, MaxEndcBands)
    /\ b_colours \in ColourValues \cup {None}
    /\ b_out = [r \in {1, 2} |-> <<>>]
    /\ b_done = {}
    /\ IdleMain
    /\ IdleProduct
    /\ IdleCall

\* process r calls build_variants; the iteration order of its label set is its own
BuildCall(r) ==
    /\ r \notin b_done
    /\ r = 2 => 1 \in b_done
    /\ \E iter \in Perms(LabelSet(b_trade, b_endc)) :
        b_out' = [b_out EXCEPT ![r] =
                     build_variants(b_trade, b_endc, SkuValue, IntVal(WeightValue),
                                    parse_colours(b_colours).colours,
                                    parse_colours(b_colours).colour_codes, iter)]
    /\ b_done' = b_done \cup {r}
    /\ UNCHANGED <<b_trade, b_endc, b_colours, mvars, pc, locals, hvars, fvars>>

NextBuild == \E r \in {1, 2} : BuildCall(r)

SpecBuild == InitBuild /\ [][NextBuild]_vars

\* the interpreter keeps running main, and the platform answers every request
SpecFair == Spec /\ WF_vars(Next)

(***************************************************************************)
(* The functions on their own, each called once on one of its inputs.      *)
(***************************************************************************)
\* prices from 0.000 to MaxPrice thousandths
FormatPriceInputs == {[price |-> p] : p \in 0..MaxPrice}

\* a variant as the platform returns it, with the fields the match reads; id 0: the
\* variant has no id
Confirmed(o1, o2, o3, id) == [option1 |-> o1, option2 |-> o2, option3 |-> o3, id |-> id]

ConfirmedUniverse ==
    {Confirmed(<<"2", "-", "5">>, TRADE, None, 7),
     Confirmed(<<"R">>, <<"2", "-", "5">>, TRADE, 8),
     Confirmed(<<"B">>, <<"2", "-", "5">>, TRADE, 0),
     Confirmed(<<"2", "-", "9">>, END_CUSTOMER, None, 9)}

EnrichInputs ==
    [bands : SeqsUpTo({Band(2, 5, 5000), Band(2, 9, 2005)}, MaxEnrichBands),
     updated_variants : SeqsUpTo(ConfirmedUniverse, MaxConfirmed),
     customer_type : CustomerTypes,
     colour : {None, <<"R">>, <<"B">>}]

\* decoded elements: two bands, a mapping without price, a band with one more key, the list
\* ["min", "max", "price"], a number
ElementUniverse ==
    {Band(2, 5, 5000),
     Band(11, 20, 2005),
     [min |-> 2, max |-> 5],
     [min |-> 2, max |-> 9, price |-> 2005, id |-> 7],
     [json |-> "list", min |-> 0, max |-> 0, price |-> 0],
     [json |-> "number"]}

ParseBandsInputs ==
    {[value |-> v] : v \in {JsonInvalid, JsonObject} \cup
                          {JsonList(items) : items \in SeqsUpTo(ElementUniverse, MaxParseItems)}}

\* values written to pricejsontid / pricejsoneid
EnrichedValues ==
    {<<>>,
     <<[min |-> 2, max |-> 5, price |-> <<"5", ".", "0", "0">>, id |-> 7]>>,
     <<[min |-> 2, max |-> 5, price |-> <<"5", ".", "0", "0">>, id |-> 8]>>}

\* present: the key is in the metafield map with an id, and the product then has one
\* metafield with that key, holding old
MetafieldWriteInputs ==
    [present : BOOLEAN,
     key : {"pricejsontid", "pricejsoneid"},
     old : EnrichedValues,
     value : EnrichedValues]

\* two band lists and an order in which the set of their labels is iterated
LabelInputs ==
    UNION {{[trade_bands |-> t, endc_bands |-> e, iter |-> p] : p \in Perms(LabelSet(t, e))} :
               t \in SeqsUpTo(BandUniverse, MaxBands), e \in SeqsUpTo(EndcUniverse, MaxEndcBands)}

\* the ids of the variants the product has when the run fetches them
ExistingVariantIds == {[i \in 1..n |-> 100 + i] : n \in 0..MaxExisting}

\* the variant ids the getProductVariants query returns (lines 946-973): the first
\* FirstPage variants of the product; no further page is asked for
FetchedVariantIds(existing) ==
    SubSeq(existing, 1, IF Len(existing) < FirstPage THEN Len(existing) ELSE FirstPage)

\* the productVariantsBulkDelete request (lines 975-998): sent when an id was fetched,
\* with the fetched ids as variantsIds
BulkDeleteRequest(existing) ==
    LET variant_ids == FetchedVariantIds(existing)
    IN  [sent |-> variant_ids # <<>>, variantsIds |-> variant_ids]

ImageNames == {"main", "img1", "img2"}

\* the live variants of the re-fetched product, with the fields the binding reads
LiveVariants ==
    <<[id |-> 1, option1 |-> <<"R">>],
      [id |-> 2, option1 |-> <<"B">>],
      [id |-> 3, option1 |-> <<"R">>]>>

ImageInputs ==
    [colours : {<<>>, <<<<"R">>>>, <<<<"R">>, <<"B">>>>},
     resolved : [{<<"R">>, <<"B">>} -> ImageNames \cup {"none"}],
     ok : [{<<"R">>, <<"B">>} -> BOOLEAN],
     main_ok : BOOLEAN]

(***************************************************************************)
(* The single-product entry point: app.py runs the script with the title   *)
(* of the product as its argument, and main filters the products with it.  *)
(***************************************************************************)
UpperChars == <<"A", "B", "C", "D", "X">>
LowerChars == <<"a", "b", "c", "d", "x">>

\* s.lower()
Lower(s) ==
    [i \in 1..Len(s) |->
        IF \E k \in 1..Len(UpperChars) : UpperChars[k] = s[i]
        THEN LowerChars[CHOOSE k \in 1..Len(UpperChars) : UpperChars[k] = s[i]]
        ELSE s[i]]

\* sub in s
IsIn(sub, s) ==
    \E k \in 0..(Len(s) - Len(sub)) : SubSeq(s, k + 1, k + Len(sub)) = sub

\* a product of the store as get_all_products returns it; sku: the SKU of its first variant
Product(id, title, sku) == [id |-> id, title |-> title, sku |-> sku]

\* "Ab" is in "Abc" and in the SKU "ab1"; one product has an empty title
ProductUniverse ==
    {Product(1, <<"A", "b">>, <<"s", "1">>),
     Product(2, <<"A", "b", "c">>, <<"s", "2">>),
     Product(3, <<>>, <<"s", "3">>),
     Product(4, <<"C", "d">>, <<"a", "b", "1">>),
     Product(5, <<"X">>, <<"s", "5">>)}

\* the stores: up to MaxStore products with different ids
Stores ==
    {s \in SeqsUpTo(ProductUniverse, MaxStore) :
        Len(s) > 0 /\ \A i, j \in 1..Len(s) : s[i].id = s[j].id => i = j}

\* _filter_products(products, product_filter=product_filter): all products when the
\* filter is empty
filter_products(products, product_filter) ==
    LET flt == Strip(Lower(product_filter))
        Matches(p) ==
            LET pid == IntStr(p.id)
                name == Lower(p.title)
                sku == Lower(p.sku)
            IN  \/ flt = Lower(pid)
                \/ flt = Lower(name)
                \/ flt = Lower(sku)
                \/ IsIn(flt, name)
                \/ IsIn(flt, sku)
    IN  IF product_filter # <<>> THEN SelectSeq(products, Matches) ELSE products

\* the products main passes to process_product when the script is run with argv[1]
main_products(products, argv1) == filter_products(products, Strip(argv1))

\* the ids of the products processed by the run run_price_bandit_for_product(product_id)
\* starts: the script is given the title of the product with that id
run_for_product(products, product_id) ==
    LET product == CHOOSE p \in Range(products) : p.id = product_id
        processed == main_products(products, product.title)
    IN  [i \in 1..Len(processed) |-> processed[i].id]

SingleRunInputs ==
    UNION {{[products |-> s, product_id |-> s[i].id] : i \in 1..Len(s)} : s \in Stores}

(***************************************************************************)
(* safe_request of Price_Manager.py.                                       *)
(***************************************************************************)
max_retries == 3

\* what the platform answers to the attempts: a response with a successful status,
\* a response with status 429, or an error (a network error raised by requests, or
\* another error status, raised by raise_for_status)
AnswerLists == [1..max_retries -> {"200", "429", "error"}]

\* the loop of safe_request from attempt_ on (counted from 0, as range does): how the
\* call ends and how many requests it has sent.  "None": the loop ran out and the
\* function ended without a return statement
RECURSIVE SafeRequestFrom(_, _)
SafeRequestFrom(answers, attempt_) ==
    IF attempt_ = max_retries
    THEN [outcome |-> "None", attempts |-> attempt_]
    ELSE IF answers[attempt_ + 1] = "429"
    THEN SafeRequestFrom(answers, attempt_ + 1)
    ELSE IF answers[attempt_ + 1] = "200"
    THEN [outcome |-> "response", attempts |-> attempt_ + 1]
    ELSE IF attempt_ = max_retries - 1
    THEN [outcome |-> "raised", attempts |-> attempt_ + 1]
    ELSE SafeRequestFrom(answers, attempt_ + 1)

Price_Manager_safe_request(answers) == SafeRequestFrom(answers, 0)

CallInputs ==
    [format_price |-> FormatPriceInputs,
     attach_main_image_to_variants |-> ImageInputs,
     set_or_update_metafield |-> MetafieldWriteInputs,
     parse_bands |-> ParseBandsInputs,
     collect_unique_band_labels |-> LabelInputs,
     safe_request |-> {[answers |-> a] : a \in AnswerLists},
     run_price_bandit_for_product |-> SingleRunInputs,
     productVariantsBulkDelete |-> {[existing |-> ids] : ids \in ExistingVariantIds},
     enrich_bands_with_variant_ids |-> EnrichInputs]

InitFn ==
    /\ fn \in DOMAIN CallInputs
    /\ args \in CallInputs[fn]
    /\ out = NotCalled
    /\ IdleBuild
    /\ IdleMain
    /\ IdleProduct

\* the call of fn returns value
CallReturns(name, value) ==
    /\ fn = name
    /\ ~out.done
    /\ out' = Returned(value)
    /\ UNCHANGED <<fn, args, bvars, mvars, pc, locals, hvars>>

FormatPriceCall == CallReturns("format_price", format_price(args.price))

EnrichCall ==
    CallReturns("enrich_bands_with_variant_ids",
                enrich_bands_with_variant_ids(args.bands, args.updated_variants,
                                              args.customer_type, args.colour))

ParseBandsCall == CallReturns("parse_bands", parse_bands(args.value))

\* the fetch of the existing variants and the delete request of process_product
BulkDeleteCall == CallReturns("productVariantsBulkDelete", BulkDeleteRequest(args.existing))

SingleRunCall ==
    CallReturns("run_price_bandit_for_product", run_for_product(args.products, args.product_id))

SafeRequestCall == CallReturns("safe_request", Price_Manager_safe_request(args.answers))

LabelsCall ==
    CallReturns("collect_unique_band_labels",
                collect_unique_band_labels(args.trade_bands, args.endc_bands, args.iter))

\* set_or_update_metafield called twice with the same metafield map and value, each
\* request accepted
MetafieldWriteCall ==
    LET request == set_or_update_metafield(args.present, args.key)
        held0 == IF args.present THEN <<args.old>> ELSE <<>>
        held1 == MetafieldsAfter(held0, request, args.key, args.value)
        held2 == MetafieldsAfter(held1, request, args.key, args.value)
    IN  CallReturns("set_or_update_metafield",
                    [requests |-> <<request, request>>, first |-> held1, second |-> held2])

\* the image binding of attach_main_image_to_variants on the live variants
ImageBindCall ==
    LET calls == ImageCalls(args.colours, LiveVariants, args.resolved, args.ok, args.main_ok)
    IN  CallReturns("attach_main_image_to_variants",
                    [calls |-> calls,
                     images |-> ImagesAfter([img \in ImageNames |-> {}], calls)])

NextFn ==
    \/ FormatPriceCall
    \/ ImageBindCall
    \/ MetafieldWriteCall
    \/ ParseBandsCall
    \/ EnrichCall
    \/ LabelsCall
    \/ BulkDeleteCall
    \/ SingleRunCall
    \/ SafeRequestCall

SpecFn == InitFn /\ [][NextFn]_vars

(***************************************************************************)
(* Properties.                                                             *)
(***************************************************************************)
OptionTuple(v) == <<v.option1, v.option2, v.option3>>

TupleSet(vs) == {OptionTuple(vs[i]) : i \in 1..Len(vs)}

\* the (label, customerType) pairs of two band lists
BandKeys(trade_bands, endc_bands) ==
    {<<band_label(b), TRADE>> : b \in Range(trade_bands)}
    \cup {<<band_label(b), END_CUSTOMER>> : b \in Range(endc_bands)}

\* the option tuples implied by the bands and the colour list: (label, customerType)
\* without a third option when there is no colour, (colour, label, customerType)
\* for every colour of the list otherwise
ImpliedTuples(trade_bands, endc_bands, colours_) ==
    IF Len(colours_) = 0
    THEN {<<k[1], k[2], None>> : k \in BandKeys(trade_bands, endc_bands)}
    ELSE {<<c, k[1], k[2]>> : c \in Range(colours_), k \in BandKeys(trade_bands, endc_bands)}

\* the pc at which process_product sends each request of its pipeline
CallSite ==
    [k \in {"GET metafields", "POST getProductVariants", "POST productVariantsBulkDelete",
            "PUT product", "PUT metafield pricejsontid", "POST metafield pricejsontid",
            "PUT metafield pricejsoneid", "POST metafield pricejsoneid", "GET product",
            "GET product fresh", "PUT image"} |->
        CASE k = "GET metafields" -> "get_metafields"
          [] k = "POST getProductVariants" -> "fetch_variants"
          [] k = "POST productVariantsBulkDelete" -> "delete_variants"
          [] k = "PUT product" -> "update_variants"
          [] k \in {"PUT metafield pricejsontid", "POST metafield pricejsontid"} ->
                "write_pricejsontid"
          [] k \in {"PUT metafield pricejsoneid", "POST metafield pricejsoneid"} ->
                "write_pricejsoneid"
          [] k = "GET product" -> "image_get"
          [] k = "GET product fresh" -> "image_refetch"
          [] OTHER -> "image_assign"]

MetafieldWrites ==
    {"PUT metafield pricejsontid", "POST metafield pricejsontid",
     "PUT metafield pricejsoneid", "POST metafield pricejsoneid"}

\* the enriched bands written to key carry ids of confirmed variants for which Fits
\* holds
WrittenBandsFit(key, customer_type, Fits(_, _, _)) ==
    stored[key].written =>
        \A n \in 1..Len(stored[key].value) :
            LET e == stored[key].value[n]
            IN  \E i \in 1..Len(updated_variants) :
                    /\ updated_variants[i].id = e.id
                    /\ Fits(updated_variants[i], band_label(e), customer_type)

\* the option tuple of v is exactly (label, customerType), with the colour of one of
\* the product's colours in front when the product has colours
ExactTuple(v, label, customer_type) ==
    IF Len(colours) = 0
    THEN OptionTuple(v) = <<label, customer_type, None>>
    ELSE \E c \in Range(colours) : OptionTuple(v) = <<c, label, customer_type>>

\* C1: every enriched band written to pricejsontid / pricejsoneid carries the id of a
\* confirmed variant whose option tuple is exactly the band's (label, customerType),
\* or (colour, label, customerType) when the product has colours
C1_EnrichedIdsMatchExactly ==
    /\ WrittenBandsFit("pricejsontid", TRADE, ExactTuple)
    /\ WrittenBandsFit("pricejsoneid", END_CUSTOMER, ExactTuple)

\* C2: the set of option tuples of the variants build_variants returns is exactly the
\* set implied by the Trade bands, the End Customer bands and the colour list
C2_LabelCompleteness ==
    \A r \in b_done :
        TupleSet(b_out[r]) = ImpliedTuples(b_trade, b_endc, parse_colours(b_colours).colours)

\* C3: two calls of build_variants on the same arguments return the same list, also
\* when two labels have the same sort key
C3_Deterministic == b_done = {1, 2} => b_out[1] = b_out[2]

\* C4: no two variants of the list build_variants returns have the same option tuple
C4_UniqueOptionTuples ==
    \A r \in b_done :
        \A i, j \in 1..Len(b_out[r]) :
            OptionTuple(b_out[r][i]) = OptionTuple(b_out[r][j]) => i = j

\* C5: a variant create/update request answered with 429 is sent again with the same
\* candidates
C5_UpdateRetriedOn429 ==
    (lastCall = "PUT product" /\ lastResp = "429") =>
        (pc = "update_variants" /\ payload.variants = variants)

\* C6: after a 429 answer to any request of the pipeline, process_product is back at
\* the place that sends that request
C6_Every429Retried ==
    (lastResp = "429" /\ lastCall \in DOMAIN CallSite) => pc = CallSite[lastCall]

\* the create/update step of the product at idx has returned zero variants
UpdateReturnedNone == "PUT product" \in issued /\ updated_variants = <<>>

\* C7: when the create/update step returns zero variants the run has ended with False
\* and has issued no metafield write and no image request
C7_AbortWritesNothing ==
    UpdateReturnedNone =>
        /\ pc \in {"return", "idle"}
        /\ result = "False"
        /\ stored = NoStored
        /\ issued \cap (MetafieldWrites \cup {"GET product", "GET product fresh", "PUT image"}) = {}

C7_Witness == UpdateReturnedNone /\ pc = "return" /\ lastResp = "422"

\* C8: the final counts of main are the numbers of runs that failed (aborted or ended
\* in an error) and of runs that did not
C8_CountsMatchRuns ==
    mainPc = "done" =>
        /\ failed = runs.aborted + runs.errored
        /\ successful = runs.completed

\* every product before the one at idx was run, and the summary comes after them all
EveryProductRun ==
    /\ mainPc = "fatal" => idx = 0
    /\ mainPc = "done" =>
          /\ idx = NumProducts
          /\ runs.aborted + runs.errored + runs.completed = NumProducts
    /\ mainPc = "loop" => runs.aborted + runs.errored + runs.completed = idx - 1

\* C9: once main is in its loop over the products, whatever the platform answers
\* (network and HTTP errors included), no product is left out and main reaches its
\* final summary
C9_BatchSurvivesErrors ==
    /\ []EveryProductRun
    /\ (mainPc = "loop") ~> (mainPc = "done")

\* the run of the first product ended in an error and the second product was run
C9_Witness ==
    /\ idx = 2
    /\ runs.errored = 1
    /\ pc = "return"
    /\ result = "True"

\* the variant has the band's label and customer type, next to each other
LabelAndTypeMatch(v, label, customer_type) ==
    \/ v.option1 = label /\ v.option2 = customer_type
    \/ v.option2 = label /\ v.option3 = customer_type

\* C10: after the bulk delete was refused with the "last variant" error the run goes
\* on: it does not end before the create/update request, that request carries all
\* candidates and the options, and the bands written carry ids of returned variants
\* with their label and customer type
C10_LastVariantProceeds ==
    delete_error = "last_variant" =>
        /\ pc \in {"return", "idle"} => "PUT product" \in issued
        /\ "PUT product" \in issued =>
              /\ payload.variants = variants
              /\ Len(variants) > 0
              /\ payload.options = IF Len(colours) > 0
                                   THEN <<"Colour", "Quantity", "Customer Type">>
                                   ELSE <<"Quantity", "Customer Type">>
        /\ WrittenBandsFit("pricejsontid", TRADE, LabelAndTypeMatch)
        /\ WrittenBandsFit("pricejsoneid", END_CUSTOMER, LabelAndTypeMatch)
        /\ stored.pricejsontid.written => Len(stored.pricejsontid.value) = Len(trade_raw)
        /\ stored.pricejsoneid.written => Len(stored.pricejsoneid.value) = Len(endc_raw)

C10_Witness ==
    /\ delete_error = "last_variant"
    /\ stored.pricejsontid.written
    /\ stored.pricejsoneid.written
    /\ Len(stored.pricejsontid.value) > 0
    /\ Len(colours) > 0

\* the place of each step of process_product in the order of its steps
StepRank ==
    [p \in {"get_metafields", "get_colours_direct", "fetch_variants", "delete_variants",
            "update_variants", "write_pricejsontid", "write_pricejsoneid", "image_get",
            "image_refetch", "image_assign"} |->
        CASE p = "get_metafields" -> 1
          [] p = "get_colours_direct" -> 2
          [] p = "fetch_variants" -> 3
          [] p = "delete_variants" -> 4
          [] p = "update_variants" -> 5
          [] p = "write_pricejsontid" -> 6
          [] p = "write_pricejsoneid" -> 7
          [] p = "image_get" -> 8
          [] p = "image_refetch" -> 9
          [] OTHER -> 10]

\* every request sent so far for the product at idx belongs to the step the run is at
\* or to an earlier one, and a step's requests come after those of the steps before it
IssuedInOrder ==
    /\ pc \in DOMAIN StepRank =>
          \A k \in issued \cap DOMAIN CallSite : StepRank[CallSite[k]] <= StepRank[pc]
    /\ "POST productVariantsBulkDelete" \in issued => "POST getProductVariants" \in issued
    /\ "PUT product" \in issued => "POST getProductVariants" \in issued
    /\ issued \cap MetafieldWrites # {} => "PUT product" \in issued
    /\ "GET product" \in issued => stored.pricejsontid.written /\ stored.pricejsoneid.written
    /\ "PUT image" \in issued => "GET product fresh" \in issued

\* one step of the batch: the run of a product moves forward through its steps, and
\* the next product starts only when the run of the product before it has returned
StepForward ==
    /\ (idx' = idx /\ pc \in DOMAIN StepRank /\ pc' \in DOMAIN StepRank) =>
          StepRank[pc'] >= StepRank[pc]
    /\ (idx' # idx /\ idx > 0) => (idx' = idx + 1 /\ pc = "return" /\ pc' = "process_product")
    /\ (idx' # idx /\ idx = 0) => (idx' = 1 /\ pc = "idle")

\* C11: the requests of a batch are those of its products one after the other in the
\* order of the list, and within a product the steps come in the order fetch, delete
\* attempt, create/update with the match, metafield writes, image
C11_StepsInOrder == []IssuedInOrder /\ [][StepForward]_vars

\* the second product of the list has gone through every step
C11_Witness ==
    /\ idx = 2
    /\ pc = "return"
    /\ result = "True"
    /\ {"POST getProductVariants", "POST productVariantsBulkDelete", "PUT product",
        "PUT image"} \subseteq issued

\* text is digits, a point and two digits
TwoDecimals(text) ==
    /\ Len(text) >= 4
    /\ text[Len(text) - 2] = "."
    /\ IntOk(SubSeq(text, 1, Len(text) - 3))
    /\ IntOk(SubSeq(text, Len(text) - 1, Len(text)))

\* the value of such a text in hundredths
Hundredths(text) ==
    100 * IntVal(SubSeq(text, 1, Len(text) - 3)) + IntVal(SubSeq(text, Len(text) - 1, Len(text)))

SubListBy(xs, ys, Same(_, _)) ==
    \E f \in [1..Len(xs) -> 1..Len(ys)] :
        /\ \A i, j \in 1..Len(xs) : i < j => f[i] < f[j]
        /\ \A i \in 1..Len(xs) : Same(xs[i], ys[f[i]])

\* the enriched band e is the band with its price formatted
EnrichedFrom(e, band) ==
    /\ e.min = band.min
    /\ e.max = band.max
    /\ e.price = format_price(band.price)

\* C12: every id in the output of enrich_bands_with_variant_ids is the id of a variant
\* of the list passed in that has the band's label and customer type, so a band no
\* such variant matches is left out; the output is the input bands in their order
\* with some left out
C12_IdsFromConfirmed ==
    (fn = "enrich_bands_with_variant_ids" /\ out.done) =>
        /\ \A n \in 1..Len(out.value) :
              \E i \in 1..Len(args.updated_variants) :
                  /\ args.updated_variants[i].id = out.value[n].id
                  /\ args.updated_variants[i].id # 0
                  /\ LabelAndTypeMatch(args.updated_variants[i], band_label(out.value[n]),
                                       args.customer_type)
        /\ SubListBy(out.value, args.bands, EnrichedFrom)

\* of two different bands one was matched and the other was left out
C12_Witness ==
    /\ fn = "enrich_bands_with_variant_ids"
    /\ out.done
    /\ Len(args.bands) = 2
    /\ args.bands[1] # args.bands[2]
    /\ Len(args.updated_variants) > 0
    /\ Len(out.value) = 1
    /\ out.value[1].min = args.bands[2].min
    /\ out.value[1].max = args.bands[2].max

\* the decoded element is a mapping with min, max and price
WellFormedBand(x) ==
    "json" \notin DOMAIN x /\ \A k \in {"min", "max", "price"} : k \in DOMAIN x

\* C20: parse_bands returns the empty list when the value is no list or one element
\* is no mapping with min, max and price, and the whole list in its order otherwise
C20_AllOrNothing ==
    (fn = "parse_bands" /\ out.done) =>
        IF /\ args.value.json = "list"
           /\ \A i \in 1..Len(args.value.items) : WellFormedBand(args.value.items[i])
        THEN out.value = args.value.items
        ELSE out.value = <<>>

\* a list with one good and one bad element came back empty
C20_Witness ==
    /\ fn = "parse_bands"
    /\ out.done
    /\ args.value.json = "list"
    /\ Len(args.value.items) = 2
    /\ WellFormedBand(args.value.items[1])
    /\ ~WellFormedBand(args.value.items[2])
    /\ out.value = <<>>

\* C13: for a key that is in the metafield map with an id, set_or_update_metafield
\* sends an update and no create, the first time and when the call is repeated, and
\* the product keeps one metafield with that key, holding the value after each call
C13_UpdateNotCreate ==
    (fn = "set_or_update_metafield" /\ out.done /\ args.present) =>
        /\ \A n \in 1..Len(out.value.requests) :
              out.value.requests[n] = "PUT metafield " \o args.key
        /\ out.value.first = <<args.value>>
        /\ out.value.second = out.value.first

\* an existing metafield holding another value was written twice
C13_Witness ==
    /\ fn = "set_or_update_metafield"
    /\ out.done
    /\ args.present
    /\ args.old # args.value
    /\ Len(out.value.requests) = 2

\* the script has ended
ScriptEnded == mainPc \in {"done", "fatal"}

\* C15: the single-product entry point answers success only when the run of the
\* product it was asked for completed: not when the run of every product the script
\* processed was aborted or ended in an error
C15_SuccessMeansCompleted ==
    (ScriptEnded /\ api_run_price_bandit.success) =>
        runs.aborted + runs.errored < NumProducts

\* pricejsontr is malformed JSON and pricejsoner gives no bands
MalformedAndEmpty ==
    /\ metafields.pricejsontr = JsonInvalid
    /\ metafields.pricejsoner.items = <<>>

\* C16: with pricejsontr malformed and no bands from pricejsoner the product is skipped:
\* the run sends nothing but reads of the products and of the metafields, writes
\* nothing and returns
C16_SkippedWithoutWrites ==
    MalformedAndEmpty =>
        /\ pc \in {"get_colours_direct", "return", "idle"}
        /\ issued \subseteq {"GET products", "GET metafields", "GET metafields direct"}
        /\ stored = NoStored
        /\ payload = NoPayload
        /\ pc \in {"return", "idle"} => result = "None"

C16_Witness ==
    /\ MalformedAndEmpty
    /\ metafields.pricejsoner = JsonList(<<>>)
    /\ pc = "return"
    /\ idx = 2

\* C17: no request of the create/update step carries more than one batch of variants
C17_OneBatchPerRequest ==
    "PUT product" \in issued => Len(payload.variants) <= BatchSize

\* C19: the re-fetch makes at most 3 attempts and stops at the first one accepted, and
\* the variant set the images are assigned from does not come from an attempt in
\* which a request failed
C19_BoundedRefetch ==
    /\ attempt \in 0..3
    /\ fresh = "variants" => pc # "image_refetch"
    /\ pc = "image_assign" => fresh \in {"variants", "none"}

\* the image the variant is to end up with: the one found for its colour when that
\* image's call was accepted, the main image otherwise
ImageDue(v) ==
    IF /\ v.option1 \in Range(args.colours)
       /\ args.resolved[v.option1] # "none"
       /\ args.ok[v.option1]
    THEN args.resolved[v.option1]
    ELSE "main"

\* C18: for a product with colours, after all calls of the image binding (the one of
\* the main image accepted), every live variant is a variant of exactly one image,
\* the one due to it
C18_OneImagePerVariant ==
    (/\ fn = "attach_main_image_to_variants"
     /\ out.done
     /\ Len(args.colours) > 0
     /\ args.main_ok) =>
        \A n \in 1..Len(LiveVariants) :
            \A img \in ImageNames :
                LiveVariants[n].id \in out.value.images[img] <=> img = ImageDue(LiveVariants[n])
\* a band of the list has a price that is a string float() rejects
HasTextPrice(bands) == \E i \in 1..Len(bands) : bands[i].price = TextPrice

\* the run read band lists of which one holds such a price, and has parsed them
TextPriceParsed ==
    /\ pc \notin {"get_metafields", "get_colours_direct"}
    /\ metafields.pricejsontr # Absent
    /\ metafields.pricejsoner # Absent
    /\ HasTextPrice(metafields.pricejsontr.items) \/ HasTextPrice(metafields.pricejsoner.items)

\* C21: a band whose price is a string that is no number is kept by parse_bands with
\* that price, and the run of the product does not end because of it: it goes on from
\* the synthesis of the variants to the requests that follow
C21_TextPriceNotFatal ==
    TextPriceParsed =>
        /\ trade_raw = metafields.pricejsontr.items
        /\ endc_raw = metafields.pricejsoner.items
        /\ pc = "return" => "POST getProductVariants" \in issued
\* the integer before the first dash of a label
NumberBeforeDash(label) == IntVal(BeforeFirst(label, "-"))

\* C22: collect_unique_band_labels returns every distinct label of the two band lists
\* exactly once, in ascending order of the integer before the first dash; when that
\* text is no integer for some label, in lexicographic order
C22_LabelsOnceSorted ==
    (fn = "collect_unique_band_labels" /\ out.done) =>
        LET distinct == {band_label(args.trade_bands[i]) : i \in 1..Len(args.trade_bands)}
                        \cup {band_label(args.endc_bands[i]) : i \in 1..Len(args.endc_bands)}
            labels == out.value
        IN  /\ Range(labels) = distinct
            /\ Len(labels) = Cardinality(distinct)
            /\ IF \A x \in distinct : IntOk(BeforeFirst(x, "-"))
               THEN \A i, j \in 1..Len(labels) :
                        i < j => NumberBeforeDash(labels[i]) <= NumberBeforeDash(labels[j])
               ELSE \A i, j \in 1..Len(labels) : i < j => StrLess(labels[i], labels[j])

\* the labels "-1-5", "2-5" and "11-20", iterated in another order, came back in
\* lexicographic order
C22_Witness ==
    /\ fn = "collect_unique_band_labels"
    /\ out.done
    /\ args.iter = <<IntStr(2) \o <<"-">> \o IntStr(5),
                     IntStr(11) \o <<"-">> \o IntStr(20),
                     IntStr(-1) \o <<"-">> \o IntStr(5)>>
    /\ out.value = <<args.iter[3], args.iter[2], args.iter[1]>>
\* the variants have the shape (label, customerType) without a third option
TwoOptionShape(vs, labels) ==
    \A i \in 1..Len(vs) :
        /\ vs[i].option1 \in labels
        /\ vs[i].option2 \in CustomerTypes
        /\ vs[i].option3 = None

\* the variants have the shape (colour, label, customerType), the colour being an entry
\* of the colour list
ThreeOptionShape(vs, labels, colours_) ==
    \A i \in 1..Len(vs) :
        /\ vs[i].option1 \in Range(colours_)
        /\ vs[i].option2 \in labels
        /\ vs[i].option3 \in CustomerTypes

\* C23: all variants build_variants returns have one option shape, decided by the
\* colour list alone: (label, customerType) when it is empty, one Trade band alone
\* giving one variant, and (colour, label, customerType) for every entry of the list
\* when it is not
C23_UniformOptionShape ==
    \A r \in b_done :
        LET colours_ == parse_colours(b_colours).colours
            labels == LabelSet(b_trade, b_endc)
        IN  IF Len(colours_) = 0
            THEN /\ TwoOptionShape(b_out[r], labels)
                 /\ (Len(b_trade) = 1 /\ b_endc = <<>>) => Len(b_out[r]) = 1
            ELSE ThreeOptionShape(b_out[r], labels, colours_)
\* the code of a colour of product_colours: the text after the colon of the last entry
\* that names the colour, empty when that entry has no colon
CodeOf(colour) ==
    LET entries == Split(Strip(b_colours), ",")
        Names(n) == IF Contains(Strip(entries[n]), ":")
                    THEN Strip(BeforeFirst(Strip(entries[n]), ":")) = colour
                    ELSE Strip(entries[n]) = colour
        last == CHOOSE n \in 1..Len(entries) :
                    Names(n) /\ \A k \in (n + 1)..Len(entries) : ~Names(k)
    IN  IF Contains(Strip(entries[last]), ":")
        THEN Strip(AfterFirst(Strip(entries[last]), ":"))
        ELSE <<>>

\* the colour a variant of a product with colours was built for
ColourOf(v) == IF v.option3 = None THEN <<>> ELSE v.option1

\* C24: for a product with colours, a variant of a colour that has a code carries the
\* SKU base/code, a variant of a colour without code carries the base SKU, and all
\* variants of one colour carry the same SKU
C24_SkuPerColour ==
    \A r \in b_done :
        (b_colours # None /\ Strip(b_colours) # <<>>) =>
            /\ \A i \in 1..Len(b_out[r]) :
                  LET v == b_out[r][i]
                  IN  v.sku = IF CodeOf(ColourOf(v)) # <<>>
                              THEN SkuValue \o <<"/">> \o CodeOf(ColourOf(v))
                              ELSE SkuValue
            /\ \A i, j \in 1..Len(b_out[r]) :
                  ColourOf(b_out[r][i]) = ColourOf(b_out[r][j]) => b_out[r][i].sku = b_out[r][j].sku

\* colours "R:r,B" with a label that has a Trade and an End Customer band: four
\* variants, those of R with the SKU base/r and those of B with the base SKU
C24_Witness ==
    /\ 1 \in b_done
    /\ b_colours = <<"R", ":", "r", ",", "B">>
    /\ Len(b_out[1]) = 4
    /\ \A i \in 1..4 :
          b_out[1][i].sku = IF b_out[1][i].option1 = <<"R">>
                            THEN SkuValue \o <<"/", "r">>
                            ELSE SkuValue
    /\ b_out[1][1].option1 = <<"R">>
    /\ b_out[1][4].option1 = <<"B">>
\* C25: the id list of the delete request holds every variant the product has when
\* the run fetches its variants, whatever their number
C25_DeleteTargetsAll ==
    (fn = "productVariantsBulkDelete" /\ out.done /\ out.value.sent) =>
        Range(out.value.variantsIds) = Range(args.existing)
\* the bulk delete was accepted and the create/update then returned no variant
DeletedThenUpdateFailed == variants_deleted /\ UpdateReturnedNone

\* a metafield write failed after the variants were created
WriteFailedAfterCreate ==
    /\ updated_variants # <<>>
    /\ lastCall \in MetafieldWrites
    /\ lastResp = "error"

\* where such a run stands: it has ended as failed, the requests of the later steps
\* were not sent, and what the accepted requests wrote is in place: the variants the
\* platform confirmed, and pricejsontid / pricejsoneid as they were unless written
FailedWhereItStood ==
    /\ DeletedThenUpdateFailed =>
          /\ pc \in {"return", "idle"}
          /\ result = "False"
          /\ lastCall = "PUT product"
          /\ ~stored.pricejsontid.written
          /\ ~stored.pricejsoneid.written
    /\ WriteFailedAfterCreate =>
          /\ pc \in {"return", "idle"}
          /\ result = "False"
          /\ updated_variants = ConfirmedVariants(variants)
          /\ ~stored.pricejsoneid.written
          /\ stored.pricejsontid.written <=>
                lastCall \in {"PUT metafield pricejsoneid", "POST metafield pricejsoneid"}
          /\ issued \cap {"GET product", "GET product fresh", "PUT image"} = {}

\* after such a failure nothing more is sent for the product and nothing it wrote or
\* deleted changes
NothingAfterFailure ==
    ((DeletedThenUpdateFailed \/ WriteFailedAfterCreate) /\ idx' = idx) =>
        UNCHANGED <<issued, lastCall, payload, variants_deleted, updated_variants, stored>>

\* C26: when the create/update fails after an accepted bulk delete, or a metafield
\* write fails after the variants were created, the run ends as failed where it stood:
\* no request follows for the product, deleted variants are not created again and
\* created ones are not removed, metafields not yet written keep their old value
C26_NoCompensation == []FailedWhereItStood /\ [][NothingAfterFailure]_vars

\* the existing variants were deleted, the new ones created and pricejsontid written,
\* and the write of pricejsoneid failed
C26_Witness ==
    /\ variants_deleted
    /\ WriteFailedAfterCreate
    /\ stored.pricejsontid.written
    /\ pc = "return"
\* the metafields of the product were read, and one of pricejsontr and pricejsoner
\* parses to a list that is not empty
OneListValid ==
    \/ parse_bands(metafields.pricejsontr) # <<>>
    \/ parse_bands(metafields.pricejsoner) # <<>>

\* C27: a product whose metafields were read is skipped, with nothing written, exactly
\* when neither pricejsontr nor pricejsoner yields a band; when one of them is
\* malformed, missing or empty and the other is valid, it is not skipped
C27_ListsFailIndependently ==
    (metafields # NoMetafields /\ pc \in {"return", "idle"}) =>
        IF OneListValid
        THEN result # "None"
        ELSE /\ result = "None"
             /\ stored = NoStored
             /\ payload = NoPayload
\* C28: the run started for one product id processes no product with another id,
\* whatever the titles and SKUs of the other products of the store
C28_OnlyTheTarget ==
    (fn = "run_price_bandit_for_product" /\ out.done) =>
        \A i \in 1..Len(out.value) : out.value[i] = args.product_id
\* the bands written to key are the bands of raw with ids; a band that has a variant
\* with option1 = label and option2 = customer type carries the id of such a variant;
\* any other band is matched without its colour, which is logged, and carries the id
\* of the variant of the first colour of the colour list for its label and customer type
FirstColourIds(key, raw, customer_type) ==
    stored[key].written =>
        /\ Len(stored[key].value) = Len(raw)
        /\ \A n \in 1..Len(raw) :
              LET label == band_label(raw[n])
                  id == stored[key].value[n].id
              IN  IF \E i \in 1..Len(updated_variants) :
                         /\ updated_variants[i].option1 = label
                         /\ updated_variants[i].option2 = customer_type
                  THEN /\ \E i \in 1..Len(updated_variants) :
                             /\ updated_variants[i].id = id
                             /\ updated_variants[i].option1 = label
                             /\ updated_variants[i].option2 = customer_type
                       /\ ~UsesFallback(raw[n], updated_variants, customer_type, None)
                  ELSE /\ \E i \in 1..Len(updated_variants) :
                             /\ updated_variants[i].id = id
                             /\ OptionTuple(updated_variants[i]) =
                                    <<colours[1], label, customer_type>>
                       /\ UsesFallback(raw[n], updated_variants, customer_type, None)

\* C29: for a product with colours whose confirmed variants come back in the order
\* submitted, every Trade and every End Customer band matched without its colour gets
\* the id of the variant of the first colour of the colour list, the match being
\* logged; a band is matched that way only when no variant has option1 = label and
\* option2 = customer type
C29_FallbackFirstColour ==
    Len(colours) > 0 =>
        /\ FirstColourIds("pricejsontid", trade_raw, TRADE)
        /\ FirstColourIds("pricejsoneid", endc_raw, END_CUSTOMER)

\* colours R and B, a Trade and an End Customer band, both metafields written
C29_Witness ==
    /\ colours = <<<<"R">>, <<"B">>>>
    /\ stored.pricejsontid.written
    /\ stored.pricejsoneid.written
    /\ Len(stored.pricejsontid.value) > 0
    /\ Len(stored.pricejsoneid.value) > 0
    /\ UsesFallback(trade_raw[1], updated_variants, TRADE, None)
\* C30: safe_request of Price_Manager sends at most 3 requests and ends either by
\* returning a response with a successful status or by raising the last error; it
\* does not return without a response, also when every attempt is answered with 429
C30_ResponseOrRaise ==
    (fn = "safe_request" /\ out.done) =>
        /\ out.value.attempts <= 3
        /\ out.value.outcome \in {"response", "raised"}
====
